---- MODULE Spec2Model ----
(***************************************************************************)
(* Model of mialab/filtering/preprocessing.py: the catalog of image        *)
(* preprocessing filters.  Every filter is an object built by __init__ and *)
(* used through execute(image, params).  The state is the filter object    *)
(* the caller currently holds, the model file on disk, and a record of the *)
(* most recent call (its arguments, its outcome, the library routines it   *)
(* invoked and the input image as it is after the call).                   *)
(*                                                                         *)
(* SimpleITK, numpy, pickle and medpy are external: their routines are     *)
(* modelled by what the wrappers observe of them (the image they return,   *)
(* the exception they raise), and their numeric results stay symbolic.     *)
(***************************************************************************)
EXTENDS Integers, Sequences, FiniteSets, TLC

VARIABLES flt, fs, last

vars == <<flt, fs, last>>

\* The number of execute calls one train-mode IRS instance receives.
MaxTrain == 3

----------------------------------------------------------------------------
(* Images *)

\* Voxel intensities of the caller's images (a binary phantom).
Intensities == {0, 1}

\* The flattened voxel array of a two-voxel image, as sitk.GetArrayFromImage
\* returns it.
VoxelArrays == {<<a, b>> : a \in Intensities, b \in Intensities}

\* Origin, spacing and direction of an image, as one value.  "default" is what
\* a freshly built image has (origin 0, spacing 1, identity direction).
DefaultInfo == "default"

Infos == {DefaultInfo, "scanner"}

\* A voxel buffer: either raw intensities or the symbolic result of a routine.
Raw(arr) == [fn |-> "raw", voxels |-> arr]

Image(data, info) == [data |-> data, info |-> info]

NoImage == [data |-> [fn |-> "none"], info |-> "none"]

\* The images a caller passes to execute.
InputImages == {Image(Raw(a), i) : a \in VoxelArrays, i \in Infos}

\* The per-call parameter object: None, or an object holding one image.
None == [none |-> TRUE]

MaskImages == {Image(Raw(<<1, 1>>), i) : i \in Infos}

BiasFieldCorrectorParams(mask) == [mask |-> mask]

HistogramMatcherParams(reference_image) == [reference_image |-> reference_image]

----------------------------------------------------------------------------
(* Outcomes of a call *)

\* The call returned: ref says whether the returned object is the very object
\* passed in ("input") or an object created by the call ("new").
Return(ref, img) == [exc |-> "none", msg |-> "", ref |-> ref, img |-> img]

Raise(exc, msg) == [exc |-> exc, msg |-> msg, ref |-> "none", img |-> NoImage]

Call(fn, args) == [fn |-> fn, args |-> args]

\* What a handler leaves behind: its outcome, the library calls it made in
\* order, the filter object, the model file and the input image after the call.
Done(ret, calls, self, file, image) ==
    [ret |-> ret, calls |-> calls, self |-> self, fs |-> file, image |-> image]

----------------------------------------------------------------------------
(* The wrapped SimpleITK routines.  Each returns a new image on the grid of *)
(* its first argument; the voxel values are left symbolic.                 *)

sitk_Filter(fn, image, args) == Image([fn |-> fn, of |-> image.data, args |-> args], image.info)

sitk_OtsuThreshold(image) == sitk_Filter("OtsuThreshold", image, <<0, 1, 200>>)

sitk_Cast(image, pixel) == sitk_Filter("Cast", image, <<pixel>>)

\* itk::RescaleIntensityImageFilter rejects OutputMinimum > OutputMaximum.
sitk_RescaleIntensity(image, lo, hi) ==
    IF lo > hi
    THEN Raise("RuntimeError", "Minimum output value cannot be greater than Maximum output value.")
    ELSE Return("new", sitk_Filter("RescaleIntensity", image, <<lo, hi>>))

\* sitk.GetImageFromArray: a new image with default origin, spacing, direction.
sitk_GetImageFromArray(data) == Image(data, DefaultInfo)

\* Image.CopyInformation(src): origin, spacing and direction of src.
CopyInformation(img, src) == Image(img.data, src.info)

----------------------------------------------------------------------------
(* numpy arithmetic of NormalizeZScore.execute, kept exact: with n voxels,  *)
(* S their sum and Q the sum of their squares, (x - mean) / std equals      *)
(* (n*x - S) / sqrt(n*Q - S*S).                                             *)

RECURSIVE SumSeq(_)
SumSeq(s) == IF s = <<>> THEN 0 ELSE Head(s) + SumSeq(Tail(s))

Squares(s) == [i \in DOMAIN s |-> s[i] * s[i]]

\* n*n times the variance of the array (numpy's std is its square root).
StdScaled(arr) == Len(arr) * SumSeq(Squares(arr)) - SumSeq(arr) * SumSeq(arr)

\* IEEE-754 division as numpy performs it: a zero divisor raises nothing
\* (numpy only warns) and yields nan or an infinity.
FloatDiv(num, den2) ==
    IF den2 # 0 THEN [cls |-> "finite", num |-> num, den2 |-> den2]
    ELSE IF num = 0 THEN [cls |-> "nan", num |-> 0, den2 |-> 0]
    ELSE [cls |-> "inf", num |-> num, den2 |-> 0]

ZScoreArray(arr) ==
    [i \in DOMAIN arr |-> FloatDiv(Len(arr) * arr[i] - SumSeq(arr), StdScaled(arr))]

----------------------------------------------------------------------------
(* The filter objects.  NoFilter: the caller holds no filter (before the    *)
(* first construction, or after a constructor raised).                     *)

NoFilter == [kind |-> "none"]

Built(self, file) == Done(Return("new", NoImage), <<>>, self, file, NoImage)

Failed(exc, msg, calls, file) == Done(Raise(exc, msg), calls, NoFilter, file, NoImage)

(* BiasFieldCorrector *)

\* Variant: the constructor validates the configuration.
BiasFieldCorrector_init_Validating(shrink_factor, histogram_bins, file) ==
    IF shrink_factor > 1
    THEN Failed("ValueError", "shrinking is not supported yet", <<>>, file)
    ELSE Built([kind |-> "BiasFieldCorrector",
                shrink_factor |-> shrink_factor,
                convergence_threshold |-> "0.001",
                max_iterations |-> <<50, 50, 50, 50>>,
                fullwidth_at_halfmax |-> "0.15",
                filter_noise |-> "0.01",
                histogram_bins |-> histogram_bins,
                control_points |-> <<4, 4, 4>>,
                spline_order |-> 3], file)

BiasFieldCorrector_init(shrink_factor, histogram_bins, file) ==
    Built([kind |-> "BiasFieldCorrector",
           shrink_factor |-> shrink_factor,
           convergence_threshold |-> "0.001",
           max_iterations |-> <<50, 50, 50, 50>>,
           fullwidth_at_halfmax |-> "0.15",
           filter_noise |-> "0.01",
           histogram_bins |-> histogram_bins,
           control_points |-> <<4, 4, 4>>,
           spline_order |-> 3], file)

N4Args(self, image, mask) ==
    <<image, mask, self.convergence_threshold, self.max_iterations,
      self.fullwidth_at_halfmax, self.filter_noise, self.histogram_bins,
      self.control_points, self.spline_order>>

\* Variant: the shrink factor is not checked.
BiasFieldCorrector_execute_NoShrinkCheck(self, image, params, file) ==
    LET otsu == IF params # None THEN <<>> ELSE <<Call("OtsuThreshold", <<image, 0, 1, 200>>)>>
        mask == IF params # None THEN params.mask ELSE sitk_OtsuThreshold(image)
    IN  Done(Return("new", sitk_Filter("N4BiasFieldCorrection", image, Tail(N4Args(self, image, mask)))),
             otsu \o <<Call("N4BiasFieldCorrection", N4Args(self, image, mask))>>,
             self, file, image)

BiasFieldCorrector_execute(self, image, params, file) ==
    LET otsu == IF params # None THEN <<>> ELSE <<Call("OtsuThreshold", <<image, 0, 1, 200>>)>>
        mask == IF params # None THEN params.mask ELSE sitk_OtsuThreshold(image)
    IN  IF self.shrink_factor > 1
        THEN Done(Raise("ValueError", "shrinking is not supported yet"), otsu, self, file, image)
        ELSE Done(Return("new", sitk_Filter("N4BiasFieldCorrection", image, Tail(N4Args(self, image, mask)))),
                  otsu \o <<Call("N4BiasFieldCorrection", N4Args(self, image, mask))>>,
                  self, file, image)

(* GradientAnisotropicDiffusion *)

GradientAnisotropicDiffusion_init(conductance, no_iterations, file) ==
    Built([kind |-> "GradientAnisotropicDiffusion",
           time_step |-> "0.125",
           conductance |-> conductance,
           conductance_scaling_update_interval |-> 1,
           no_iterations |-> no_iterations], file)

GradientAnisotropicDiffusion_execute(self, image, params, file) ==
    LET cast == sitk_Cast(image, "sitkFloat32")
        args == <<self.time_step, self.conductance,
                  self.conductance_scaling_update_interval, self.no_iterations>>
    IN  Done(Return("new", sitk_Filter("GradientAnisotropicDiffusion", cast, args)),
             <<Call("Cast", <<image, "sitkFloat32">>),
               Call("GradientAnisotropicDiffusion", <<cast>> \o args)>>,
             self, file, image)

(* NormalizeZScore *)

NormalizeZScore_init(file) == Built([kind |-> "NormalizeZScore"], file)

\* Variant: the normalized values are written back into the input image.
NormalizeZScore_execute_InPlace(self, image, params, file) ==
    LET img_out == Image([fn |-> "float32", voxels |-> ZScoreArray(image.data.voxels)], image.info)
    IN  Done(Return("input", img_out), <<>>, self, file, img_out)

\* Variant: CopyInformation is left out.
NormalizeZScore_execute_NoCopyInformation(self, image, params, file) ==
    LET img_arr == ZScoreArray(image.data.voxels)
        img_out == sitk_GetImageFromArray([fn |-> "float32", voxels |-> img_arr])
    IN  Done(Return("new", img_out), <<>>, self, file, image)

NormalizeZScore_execute(self, image, params, file) ==
    LET img_arr == ZScoreArray(image.data.voxels)
        img_out == sitk_GetImageFromArray([fn |-> "float32", voxels |-> img_arr])
    IN  Done(Return("new", CopyInformation(img_out, image)), <<>>, self, file, image)

(* Gaussian *)

Gaussian_init(sigma, file) == Built([kind |-> "Gaussian", sigma |-> sigma], file)

Gaussian_execute(self, image, params, file) ==
    Done(Return("new", sitk_Filter("SmoothingRecursiveGaussian", image, <<self.sigma>>)),
         <<Call("SmoothingRecursiveGaussian", <<image, self.sigma>>)>>, self, file, image)

(* Median *)

Median_init(radius, file) == Built([kind |-> "Median", radius |-> radius], file)

Median_execute(self, image, params, file) ==
    Done(Return("new", sitk_Filter("Median", image, <<self.radius>>)),
         <<Call("Median", <<image, self.radius>>)>>, self, file, image)

(* RescaleIntensity *)

RescaleIntensity_init(min_intensity, max_intensity, file) ==
    Built([kind |-> "RescaleIntensity",
           min_intensity |-> min_intensity,
           max_intensity |-> max_intensity], file)

\* Variant: the two bounds are passed in the wrong order.
RescaleIntensity_execute_Swapped(self, image, params, file) ==
    Done(sitk_RescaleIntensity(image, self.max_intensity, self.min_intensity),
         <<Call("RescaleIntensity", <<image, self.max_intensity, self.min_intensity>>)>>,
         self, file, image)

RescaleIntensity_execute(self, image, params, file) ==
    Done(sitk_RescaleIntensity(image, self.min_intensity, self.max_intensity),
         <<Call("RescaleIntensity", <<image, self.min_intensity, self.max_intensity>>)>>,
         self, file, image)

(* HistogramMatcher *)

HistogramMatcher_init(histogram_levels, match_points, threshold_mean_intensity, file) ==
    Built([kind |-> "HistogramMatcher",
           histogram_levels |-> histogram_levels,
           match_points |-> match_points,
           threshold_mean_intensity |-> threshold_mean_intensity], file)

\* Variant: a missing parameter object defaults to matching the image to itself.
HistogramMatcher_execute_DefaultReference(self, image, params, file) ==
    LET reference == IF params = None THEN image ELSE params.reference_image
        args == <<reference, self.histogram_levels, self.match_points,
                  self.threshold_mean_intensity>>
    IN  Done(Return("new", sitk_Filter("HistogramMatching", image, args)),
             <<Call("HistogramMatching", <<image>> \o args)>>, self, file, image)

HistogramMatcher_execute(self, image, params, file) ==
    IF params = None
    THEN Done(Raise("ValueError", "Parameter with reference image is required"), <<>>, self, file, image)
    ELSE LET args == <<params.reference_image, self.histogram_levels, self.match_points,
                       self.threshold_mean_intensity>>
         IN  Done(Return("new", sitk_Filter("HistogramMatching", image, args)),
                  <<Call("HistogramMatching", <<image>> \o args)>>, self, file, image)

(* Bilateral *)

Bilateral_init(domainSigma, rangeSigma, file) ==
    Built([kind |-> "Bilateral", domainSigma |-> domainSigma, rangeSigma |-> rangeSigma], file)

Bilateral_execute(self, image, params, file) ==
    Done(Return("new", sitk_Filter("Bilateral", image, <<self.domainSigma, self.rangeSigma>>)),
         <<Call("Bilateral", <<image, self.domainSigma, self.rangeSigma>>)>>, self, file, image)

----------------------------------------------------------------------------
(* The model file, pickle and medpy's IntensityRangeStandardization *)

\* No file at model_path.
Absent == [exists |-> FALSE]

\* pickle.dump writes bytes: a binary pickle starts with the PROTO opcode 0x80
\* and holds the object.
PickleDumps(obj) == [exists |-> TRUE, head |-> 128, obj |-> obj]

\* open(path, mode): the stream a later read is served from.
Open(file, mode, encoding) == [mode |-> mode, encoding |-> encoding, file |-> file]

\* The text encoding open(path, 'r') decodes with (the locale's).
Encodings == {"utf-8", "latin-1"}

\* pickle.load(f): f.read must hand out bytes.  A text-mode stream decodes the
\* bytes first (0x80 is no UTF-8 start byte) and what it hands out is str.
pickle_load(f) ==
    IF f.mode = "rb" THEN Return("new", f.file.obj)
    ELSE IF f.encoding = "utf-8" /\ f.file.head >= 128
         THEN Raise("UnicodeDecodeError", "'utf-8' codec can't decode byte 0x80 in position 0")
         ELSE Raise("TypeError", "a bytes-like object is required, not 'str'")

\* IntensityRangeStandardization(): an untrained model.
IntensityRangeStandardization == [trained_on |-> <<>>]

\* medpy rejects a training image whose landmark percentiles coincide.
Trainable(arr) == \E i, j \in DOMAIN arr : arr[i] # arr[j]

\* irs.train(images): refits the landmark model on the whole list; the model is
\* assigned only after every image has passed the percentile check.
irs_train(irs, images) ==
    IF \A i \in DOMAIN images : Trainable(images[i])
    THEN [ret |-> Return("input", NoImage), irs |-> [trained_on |-> images]]
    ELSE [ret |-> Raise("SingleIntensityAccumulationError", "two percentile values are equal"),
          irs |-> irs]

\* irs.transform(arr): the array mapped through the landmark model.
irs_transform(irs, arr) == [fn |-> "transform", model |-> irs, arr |-> arr]

(* IRS *)

ModelPath == "bin/mia-model/hmmModel.pkl"

IRS_init(model_path, train, encoding, file) ==
    IF train
    THEN Built([kind |-> "IRS", model_path |-> model_path, train |-> TRUE,
                train_images |-> <<>>, irs |-> IntensityRangeStandardization], file)
    ELSE IF ~file.exists
         THEN Failed("FileNotFoundError", "No such file or directory", <<>>, file)
         ELSE LET loaded == pickle_load(Open(file, "r", encoding))
              IN  IF loaded.exc # "none"
                  THEN Failed(loaded.exc, loaded.msg, <<Call("pickle.load", <<model_path, "r">>)>>, file)
                  ELSE Done(Return("new", NoImage), <<Call("pickle.load", <<model_path, "r">>)>>,
                            [kind |-> "IRS", model_path |-> model_path, train |-> FALSE,
                             irs |-> loaded.img], file, NoImage)

\* Variant: the model is refit on the latest image only.
IRS_execute_TrainLatestOnly(self, image, params, file) ==
    LET img_array == image.data.voxels
    IN  IF self.train
        THEN LET train_images == Append(self.train_images, img_array)
                 fit == irs_train(self.irs, <<img_array>>)
                 after == [self EXCEPT !.train_images = train_images, !.irs = fit.irs]
             IN  IF fit.ret.exc # "none"
                 THEN Done(fit.ret, <<Call("irs.train", <<img_array>>)>>, after, file, image)
                 ELSE Done(Return("input", image),
                           <<Call("irs.train", <<img_array>>),
                             Call("pickle.dump", <<self.model_path, "wb">>)>>,
                           after, PickleDumps(fit.irs), image)
        ELSE Done(Raise("TypeError", "Wrong number or type of arguments for overloaded function 'new_Image'"),
                  <<Call("irs.transform", <<self.irs, img_array>>)>>, self, file, image)

IRS_execute(self, image, params, file) ==
    LET img_array == image.data.voxels
    IN  IF self.train
        THEN LET train_images == Append(self.train_images, img_array)
                 fit == irs_train(self.irs, train_images)
                 after == [self EXCEPT !.train_images = train_images, !.irs = fit.irs]
             IN  IF fit.ret.exc # "none"
                 THEN Done(fit.ret, <<Call("irs.train", train_images)>>, after, file, image)
                 ELSE Done(Return("input", image),
                           <<Call("irs.train", train_images),
                             Call("pickle.dump", <<self.model_path, "wb">>)>>,
                           after, PickleDumps(fit.irs), image)
        ELSE \* sitk.Image has no constructor taking an array
             Done(Raise("TypeError", "Wrong number or type of arguments for overloaded function 'new_Image'"),
                  <<Call("irs.transform", <<self.irs, img_array>>)>>, self, file, image)

----------------------------------------------------------------------------
(* The state machine *)

Event(op, kind, self, image, params, d) ==
    [op |-> op, kind |-> kind, self |-> self, image |-> image, params |-> params,
     ret |-> d.ret, calls |-> d.calls, image_after |-> d.image, fs_before |-> fs]

\* A constructor ran with the arguments args: the caller holds what it built
\* (nothing, if it raised).
Construct(kind, args, d) ==
    /\ flt' = d.self
    /\ fs' = d.fs
    /\ last' = Event("construct", kind, NoFilter, NoImage, args, d)

\* execute(image, params) ran on the filter the caller holds.
Execute(image, params, d) ==
    /\ flt' = d.self
    /\ fs' = d.fs
    /\ last' = Event("execute", flt.kind, flt, image, params, d)

Init ==
    /\ flt = NoFilter
    /\ fs = Absent
    /\ last = [op |-> "start", kind |-> "none", self |-> NoFilter, image |-> NoImage,
               params |-> None, ret |-> Return("none", NoImage), calls |-> <<>>,
               image_after |-> NoImage, fs_before |-> Absent]

ShrinkFactors == {1, 2, 4}

NewBiasFieldCorrector ==
    \E sf \in ShrinkFactors, bins \in {100, 200} :
        Construct("BiasFieldCorrector", [shrink_factor |-> sf],
                  BiasFieldCorrector_init(sf, bins, fs))

NewGradientAnisotropicDiffusion ==
    \E c \in {1, 3}, n \in {5} :
        Construct("GradientAnisotropicDiffusion", [conductance |-> c],
                  GradientAnisotropicDiffusion_init(c, n, fs))

NewNormalizeZScore == Construct("NormalizeZScore", None, NormalizeZScore_init(fs))

NewGaussian == \E sigma \in {0, 1} : Construct("Gaussian", [sigma |-> sigma], Gaussian_init(sigma, fs))

NewMedian == \E radius \in {0, 1} : Construct("Median", [radius |-> radius], Median_init(radius, fs))

RescaleBounds == {0, 1, 255}

NewRescaleIntensity ==
    \E lo \in RescaleBounds, hi \in RescaleBounds :
        Construct("RescaleIntensity", [min_intensity |-> lo, max_intensity |-> hi],
                  RescaleIntensity_init(lo, hi, fs))

NewHistogramMatcher ==
    \E levels \in {128, 256}, points \in {1, 2}, thr \in BOOLEAN :
        Construct("HistogramMatcher", [histogram_levels |-> levels],
                  HistogramMatcher_init(levels, points, thr, fs))

NewBilateral ==
    \E ds \in {4}, rs \in {25, 50} : Construct("Bilateral", [rangeSigma |-> rs], Bilateral_init(ds, rs, fs))

NewIRS ==
    \E train \in BOOLEAN, enc \in Encodings :
        Construct("IRS", [model_path |-> ModelPath, train |-> train],
                  IRS_init(ModelPath, train, enc, fs))

BiasFieldCorrectorExecute ==
    /\ flt.kind = "BiasFieldCorrector"
    /\ \E image \in InputImages,
          params \in {None} \cup {BiasFieldCorrectorParams(m) : m \in MaskImages} :
            Execute(image, params, BiasFieldCorrector_execute(flt, image, params, fs))

GradientAnisotropicDiffusionExecute ==
    /\ flt.kind = "GradientAnisotropicDiffusion"
    /\ \E image \in InputImages :
            Execute(image, None, GradientAnisotropicDiffusion_execute(flt, image, None, fs))

NormalizeZScoreExecute ==
    /\ flt.kind = "NormalizeZScore"
    /\ \E image \in InputImages :
            Execute(image, None, NormalizeZScore_execute(flt, image, None, fs))

GaussianExecute ==
    /\ flt.kind = "Gaussian"
    /\ \E image \in InputImages : Execute(image, None, Gaussian_execute(flt, image, None, fs))

MedianExecute ==
    /\ flt.kind = "Median"
    /\ \E image \in InputImages : Execute(image, None, Median_execute(flt, image, None, fs))

RescaleIntensityExecute ==
    /\ flt.kind = "RescaleIntensity"
    /\ \E image \in InputImages :
            Execute(image, None, RescaleIntensity_execute(flt, image, None, fs))

ReferenceImages == {Image(Raw(<<0, 1>>), i) : i \in Infos}

HistogramMatcherExecute ==
    /\ flt.kind = "HistogramMatcher"
    /\ \E image \in InputImages,
          params \in {None} \cup {HistogramMatcherParams(r) : r \in ReferenceImages} :
            Execute(image, params, HistogramMatcher_execute(flt, image, params, fs))

BilateralExecute ==
    /\ flt.kind = "Bilateral"
    /\ \E image \in InputImages : Execute(image, None, Bilateral_execute(flt, image, None, fs))

\* The calls on one train-mode instance are capped at MaxTrain.
IRSExecute ==
    /\ flt.kind = "IRS"
    /\ flt.train => Len(flt.train_images) < MaxTrain
    /\ \E image \in InputImages : Execute(image, None, IRS_execute(flt, image, None, fs))

Next ==
    \/ NewBiasFieldCorrector
    \/ NewGradientAnisotropicDiffusion
    \/ NewNormalizeZScore
    \/ NewGaussian
    \/ NewMedian
    \/ NewRescaleIntensity
    \/ NewHistogramMatcher
    \/ NewBilateral
    \/ NewIRS
    \/ BiasFieldCorrectorExecute
    \/ GradientAnisotropicDiffusionExecute
    \/ NormalizeZScoreExecute
    \/ GaussianExecute
    \/ MedianExecute
    \/ RescaleIntensityExecute
    \/ HistogramMatcherExecute
    \/ BilateralExecute
    \/ IRSExecute

Spec == Init /\ [][Next]_vars

----------------------------------------------------------------------------
(* The error kinds of the catalog, by the exception the code raises *)

MissingParameter(r) ==
    r.exc = "ValueError" /\ r.msg = "Parameter with reference image is required"

UnsupportedConfiguration(r) ==
    r.exc = "ValueError" /\ r.msg = "shrinking is not supported yet"

InvalidNumericInput(r) ==
    r.exc \in {"RuntimeError", "ZeroDivisionError", "FloatingPointError"}

ModelUnavailable(r) ==
    \/ r.exc \in {"FileNotFoundError", "UnicodeDecodeError"}
    \/ r.exc = "TypeError" /\ r.msg = "a bytes-like object is required, not 'str'"

Executed(kind) == last.op = "execute" /\ last.kind = kind

Constructed(kind) == last.op = "construct" /\ last.kind = kind

Invoked(fn) == \E i \in DOMAIN last.calls : last.calls[i].fn = fn

----------------------------------------------------------------------------
(* Properties *)

\* C1: HistogramMatcher.execute without a parameter object fails with the
\* missing-parameter error, whatever the image and the configuration, and does
\* not invoke the histogram-matching routine; with a parameter object it
\* invokes the routine once, with the image, params.reference_image and the
\* three configured values.
C1_MissingReference ==
    Executed("HistogramMatcher") =>
        IF last.params = None
        THEN MissingParameter(last.ret) /\ last.calls = <<>>
        ELSE /\ last.ret.exc = "none"
             /\ last.calls = <<Call("HistogramMatching",
                                    <<last.image, last.params.reference_image,
                                      last.self.histogram_levels, last.self.match_points,
                                      last.self.threshold_mean_intensity>>)>>

C1_Witness ==
    /\ Executed("HistogramMatcher")
    /\ last.params = None
    /\ MissingParameter(last.ret)
    /\ last.self.histogram_levels = 128
    /\ ~last.self.threshold_mean_intensity

\* C2: BiasFieldCorrector.execute on a filter built with shrink_factor > 1
\* fails with the unsupported-configuration error, with or without a mask
\* parameter, and never invokes the N4 routine.
C2_ShrinkUnsupported ==
    (Executed("BiasFieldCorrector") /\ last.self.shrink_factor > 1) =>
        /\ UnsupportedConfiguration(last.ret)
        /\ ~Invoked("N4BiasFieldCorrection")

C2_Witness ==
    /\ Executed("BiasFieldCorrector")
    /\ last.self.shrink_factor > 1
    /\ last.params = None
    /\ Invoked("OtsuThreshold")
    /\ UnsupportedConfiguration(last.ret)

\* C3: RescaleIntensity.execute fails with the invalid-numeric-input error and
\* returns no image when min_intensity > max_intensity, and returns a new image
\* otherwise.
C3_InvertedBounds ==
    Executed("RescaleIntensity") =>
        IF last.self.min_intensity > last.self.max_intensity
        THEN InvalidNumericInput(last.ret) /\ last.ret.ref = "none"
        ELSE last.ret.exc = "none" /\ last.ret.ref = "new"

C3_Witness ==
    /\ Executed("RescaleIntensity")
    /\ last.self.min_intensity > last.self.max_intensity
    /\ InvalidNumericInput(last.ret)

\* C4: NormalizeZScore.execute on an image whose voxels all have the same
\* intensity (standard deviation 0) fails with the invalid-numeric-input error.
C4_ZeroVarianceGuarded ==
    (Executed("NormalizeZScore") /\ StdScaled(last.image.data.voxels) = 0) =>
        InvalidNumericInput(last.ret)

\* C5: once a train-mode IRS has executed on three images, constructing an
\* apply-mode IRS on the same model_path succeeds, and the instance transforms
\* every image as the trained model that was persisted does.
C5_PersistenceRoundTrip ==
    (/\ Constructed("IRS")
     /\ ~last.params.train
     /\ last.fs_before.exists
     /\ Len(last.fs_before.obj.trained_on) = 3) =>
        /\ last.ret.exc = "none"
        /\ \A a \in VoxelArrays :
              irs_transform(flt.irs, a) = irs_transform([trained_on |-> last.fs_before.obj.trained_on], a)

\* C6: no execute call changes its input image, also when it fails; the image
\* it returns is a new object, except for IRS in train mode, which returns the
\* object it was given.
C6_InputNotMutated ==
    last.op = "execute" =>
        /\ last.image_after = last.image
        /\ last.ret.exc = "none" =>
              IF last.kind = "IRS" /\ last.self.train
              THEN last.ret.ref = "input" /\ last.ret.img = last.image
              ELSE last.ret.ref = "new"

C6_Witness ==
    /\ Executed("NormalizeZScore")
    /\ last.ret.ref = "new"
    /\ last.ret.img.data.fn = "float32"
    /\ last.image.data.fn = "raw"
    /\ last.image_after = last.image

C8_ConstructionNeverFails ==
    last.op = "construct" => last.ret.exc = "none"

\* C8 amended: the only constructor that fails is that of an apply-mode IRS,
\* which raises the model-unavailable error itself (always so when the file is
\* absent) and leaves the caller without a filter; no execute call raises the
\* model-unavailable error.
C8_ErrorsAtTheOffendingCall ==
    /\ (last.op = "construct" /\ last.ret.exc # "none") =>
          /\ last.kind = "IRS"
          /\ ~last.params.train
          /\ ModelUnavailable(last.ret)
          /\ flt = NoFilter
    /\ (Constructed("IRS") /\ ~last.params.train /\ ~last.fs_before.exists) =>
          last.ret.exc = "FileNotFoundError"
    /\ last.op = "execute" => ~ModelUnavailable(last.ret)

C8_Witness ==
    /\ Constructed("IRS")
    /\ ~last.params.train
    /\ ~last.fs_before.exists
    /\ last.ret.exc = "FileNotFoundError"

\* C9: a train-mode IRS starts with an empty accumulator; a successful execute
\* call appends the input's voxel array to it (order and duplicates kept),
\* refits the model on the whole accumulator, persists that model to the model
\* file, in this order, and returns its input.
C9_AppendRefitPersist ==
    /\ (Constructed("IRS") /\ last.params.train) =>
          flt.train_images = <<>> /\ flt.irs = IntensityRangeStandardization
    /\ (Executed("IRS") /\ last.self.train /\ last.ret.exc = "none") =>
          /\ flt.train_images = Append(last.self.train_images, last.image.data.voxels)
          /\ \A i \in DOMAIN flt.train_images : Trainable(flt.train_images[i])
          /\ flt.irs = [trained_on |-> flt.train_images]
          /\ fs = PickleDumps(flt.irs)
          /\ last.calls = <<Call("irs.train", flt.train_images),
                            Call("pickle.dump", <<flt.model_path, "wb">>)>>
          /\ last.ret.ref = "input"
          /\ last.ret.img = last.image

C9_Witness ==
    /\ Executed("IRS")
    /\ last.self.train
    /\ last.ret.exc = "none"
    /\ flt.train_images = <<(<<0, 1>>), (<<1, 0>>), (<<0, 1>>)>>
    /\ fs = PickleDumps([trained_on |-> flt.train_images])

\* C10: an apply-mode IRS holds the model that its constructor loaded from the
\* model file, and no execute call on it touches the file, the model or a
\* training accumulator.
C10_FixedLoadedModel ==
    /\ (Constructed("IRS") /\ ~last.params.train /\ last.fs_before.exists) =>
          /\ last.ret.exc = "none"
          /\ flt.kind = "IRS"
          /\ flt.irs = last.fs_before.obj
    /\ (Executed("IRS") /\ ~last.self.train) =>
          /\ flt = last.self
          /\ fs = last.fs_before
          /\ ~Invoked("pickle.load")
          /\ ~Invoked("pickle.dump")

====
